---- MODULE Spec2Model ----
(***************************************************************************)
(* HRAS: automatic patient -> caregiver assignment engine                  *)
(* (core/utils/assignment.py), its callers (core/signals.py,               *)
(* core/views.py PatientViewSet.perform_create) and the rows they write    *)
(* (core/models.py Patient, Resource, Assignment).                         *)
(*                                                                         *)
(* The database is modelled under read-committed isolation: a committed    *)
(* state (assignments, availability) plus, for every open transaction,     *)
(* its pending inserts, deletes and row updates.  A transaction reads the  *)
(* committed state overlaid with its own pending writes and publishes them *)
(* when its transaction.atomic block exits without an exception.           *)
(***************************************************************************)
EXTENDS Bags, FiniteSets, Integers, Sequences, TLC

----------------------------------------------------------------------------
(* Bounds of the model *)

NumResources == 4

MaxCalls == 2

----------------------------------------------------------------------------
(* Fixture: hospitals, users, resources *)

Hospitals == {"h1", "h2"}

NoHospital == "none"

NoUser == "none"

NoResource == 0

NoPatient == 0

ClinicalUsers == {"d1", "d2", "n1", "d3"}

\* adm: an account whose role column holds 'admin', the value IsAdmin tests
\* for (the column does not enforce ROLE_CHOICES)
Users == ClinicalUsers \cup {"rc1", "ha2", "sa", "adm"}

ROLE_CHOICES == {"super_admin", "hospital_admin", "doctor", "nurse", "receptionist"}

\* the role every account of the fixture is created with
InitialRole(u) ==
    CASE u \in {"d1", "d2", "d3"} -> "doctor"
      [] u = "n1" -> "nurse"
      [] u = "rc1" -> "receptionist"
      [] u = "ha2" -> "hospital_admin"
      [] u = "adm" -> "admin"
      [] OTHER -> "super_admin"

UserHospital(u) ==
    CASE u \in {"d1", "d2", "n1", "rc1"} -> "h1"
      [] u \in {"d3", "ha2"} -> "h2"
      [] OTHER -> NoHospital

Resources == 1..NumResources

ResourceType(r) == IF r = 1 THEN "Equipment" ELSE "Bed"

ResourceHospital(r) == IF r <= 3 THEN "h1" ELSE "h2"

Priorities == {"Low", "Medium", "High", "Critical"}

\* the approval states the staff of the fixture starts in
StaffConfigs ==
    {[unapproved |-> {}, inactive |-> {}],
     [unapproved |-> {"d1"}, inactive |-> {}],
     [unapproved |-> {}, inactive |-> {"d1", "d2"}],
     [unapproved |-> {"n1"}, inactive |-> {"d2"}],
     [unapproved |-> {"d1", "n1"}, inactive |-> {"d2", "d3"}]}

\* the users passed to reassign_patient as new_staff
NewStaffInputs == {"d2", "d3", "rc1"}

\* what the triage oracle's answer contains
OracleAnswers == {"Critical", "High", "Medium", "other"}

Procs == {"t1", "t2"}

SeqProcs == {"t1"}

----------------------------------------------------------------------------
(* State *)

VARIABLES
    patients,       \* sequence of Patient rows; the index is the primary key
    is_approved,    \* CustomUser.is_approved
    is_active,      \* CustomUser.is_active
    availability,   \* committed Resource.availability
    assignments,    \* committed Assignment rows (a bag: rows carry no key here)
    txn,            \* per request: position, locals, pending writes, response
    calls,          \* number of creating requests and engine calls started so far
    records,        \* clinical sub-records; the index is the primary key
    registered,     \* the users that have a CustomUser row
    user_role       \* CustomUser.role

vars == <<patients, is_approved, is_active, availability, assignments, txn, calls,
          records, registered, user_role>>

\* user.role; no role when the request has no account
UserRole(u) == IF u \in Users THEN user_role[u] ELSE "none"

Row(p, u, r) == [patient |-> p, user |-> u, resource |-> r]

KeepAll == [r \in Resources |-> "keep"]

IdleTxn ==
    [pc |-> "idle", op |-> "none", patient |-> NoPatient, new_staff |-> NoUser,
     staff |-> NoUser, available_bed |-> NoResource,
     ins |-> EmptyBag, del |-> EmptyBag, wAvail |-> KeepAll,
     old_beds |-> {}, result |-> "none", then |-> "none",
     preA |-> EmptyBag, preAv |-> [r \in Resources |-> TRUE],
     user |-> NoUser, method |-> "none", body |-> {}]

----------------------------------------------------------------------------
(* Queries *)

RECURSIVE SumCopies(_, _)
SumCopies(B, S) ==
    IF S = {} THEN 0
    ELSE LET x == CHOOSE y \in S : TRUE
         IN  B[x] + SumCopies(B, S \ {x})

\* Assignment.objects.filter(patient=p): the rows of one patient
RowsOfPatient(B, p) ==
    [x \in {y \in BagToSet(B) : y.patient = p} |-> B[x]]

CountOfPatient(B, p) == SumCopies(B, {y \in BagToSet(B) : y.patient = p})

\* Count('assignments', filter=Q(assignments__patient__isnull=False))
active_assignments(B, u) == SumCopies(B, {y \in BagToSet(B) : y.user = u})

CountOnResource(B, r) == SumCopies(B, {y \in BagToSet(B) : y.resource = r})

\* What transaction t reads: committed rows overlaid with its own writes
ViewAssignments(t) == (assignments (-) txn[t].del) (+) txn[t].ins

ViewAvailability(t) ==
    [r \in Resources |->
        IF txn[t].wAvail[r] = "keep" THEN availability[r]
        ELSE txn[t].wAvail[r] = "T"]

\* variant: the filter without is_approved=True
StaffFilter_NoApproval(h, role) ==
    {u \in Users : /\ UserHospital(u) = h
                   /\ UserRole(u) = role
                   /\ is_active[u]}

\* User.objects.filter(hospital=, role=, is_approved=True, is_active=True)
StaffFilter(h, role) ==
    {u \in Users : /\ UserHospital(u) = h
                   /\ UserRole(u) = role
                   /\ is_approved[u]
                   /\ is_active[u]}

\* variant: first() without the order_by
find_available_staff_Unordered(B, h, role) == StaffFilter(h, role)

\* .annotate(active_assignments=...).order_by('active_assignments').first()
\* the rows the ordering may put first; {} when the filter is empty
_find_available_staff(B, h, role) ==
    {u \in StaffFilter(h, role) :
        \A v \in StaffFilter(h, role) :
            active_assignments(B, u) <= active_assignments(B, v)}

\* variant: the filter without availability=True
BedFilter_IgnoreAvailability(av, h) ==
    {r \in Resources : /\ ResourceHospital(r) = h
                       /\ ResourceType(r) = "Bed"}

\* Resource.objects.filter(hospital=, type='Bed', availability=True)
BedFilter(av, h) ==
    {r \in Resources : /\ ResourceHospital(r) = h
                       /\ ResourceType(r) = "Bed"
                       /\ av[r]}

\* .first() on an unordered queryset orders by primary key
FirstBed(av, h) ==
    IF BedFilter(av, h) = {} THEN NoResource
    ELSE CHOOSE r \in BedFilter(av, h) : \A q \in BedFilter(av, h) : r <= q

is_high_priority(prio) == prio \in {"High", "Critical"}

\* variant: doctors first whatever the priority
StaffOrder_DoctorFirst(prio) == <<"doctor", "nurse">>

\* the staff class tried first and the one tried second
StaffOrder(prio) ==
    IF is_high_priority(prio) THEN <<"doctor", "nurse">> ELSE <<"nurse", "doctor">>

----------------------------------------------------------------------------
(* Initial state: no patients, no Assignments, every resource available *)

Init ==
    /\ patients = << >>
    /\ \E c \in StaffConfigs :
          /\ is_approved = [u \in Users |-> u \notin c.unapproved]
          /\ is_active = [u \in Users |-> u \notin c.inactive]
    /\ availability = [r \in Resources |-> TRUE]
    /\ assignments = EmptyBag
    /\ txn = [t \in Procs |-> IdleTxn]
    /\ calls = 0
    /\ records = << >>
    /\ registered = Users
    /\ user_role = [u \in Users |-> InitialRole(u)]

----------------------------------------------------------------------------
(* Transaction primitives *)

\* exit of the transaction.atomic block without an exception: publish
Commit(t) ==
    /\ assignments' = (assignments (-) txn[t].del) (+) txn[t].ins
    /\ availability' = ViewAvailability(t)

\* the caller sees the outcome; the pending writes are gone either way
Returned(t, res) ==
    [txn[t] EXCEPT !.pc = "done", !.result = res,
                   !.staff = IF res = "timeout" THEN NoUser ELSE @,
                   !.available_bed = IF res = "timeout" THEN NoResource ELSE @,
                   !.ins = EmptyBag, !.del = EmptyBag, !.wAvail = KeepAll]

\* a row update waits while another open transaction holds the row
RowFree(t, r) == \A o \in Procs \ {t} : txn[o].wAvail[r] = "keep"

PatientHospital(t) == patients[txn[t].patient].hospital

PatientPriority(t) == patients[txn[t].patient].priority

\* entry of a call of assign_patient(p) from position "idle" or "done"
EnterAssign(t, p, next) ==
    [IdleTxn EXCEPT !.pc = "a_enter", !.op = "assign", !.patient = p,
                    !.then = next]

----------------------------------------------------------------------------
(* Permission classes *)

PatientAccessPermission(u) ==
    UserRole(u) \in {"receptionist", "doctor", "nurse", "hospital_admin", "super_admin"}

StaffPatientPermission(u) ==
    UserRole(u) \in {"doctor", "nurse", "hospital_admin", "super_admin"}

IsNotNurse(u) == UserRole(u) # "nurse"

IsNotDoctor(u) == UserRole(u) # "doctor"

IsNotReceptionist(u) == UserRole(u) # "receptionist"

\* Assignment.objects.filter(patient=obj, user=request.user, user__role='doctor')
DoctorPatientPermission(u, p) ==
    \E x \in BagToSet(assignments) :
        x.patient = p /\ x.user = u /\ UserRole(x.user) = "doctor"

\* Assignment.objects.filter(patient=obj, user=request.user, user__role='nurse')
NursePatientPermission(u, p) ==
    \E x \in BagToSet(assignments) :
        x.patient = p /\ x.user = u /\ UserRole(x.user) = "nurse"

\* variant: the create action without IsNotDoctor
get_permissions_DoctorMayCreate(action, u) ==
    CASE action \in {"list", "retrieve"} -> PatientAccessPermission(u)
      [] action = "create" -> PatientAccessPermission(u) /\ IsNotNurse(u)
      [] action \in {"update", "partial_update"} -> StaffPatientPermission(u)
      [] action = "destroy" ->
            StaffPatientPermission(u) /\ IsNotNurse(u) /\ IsNotDoctor(u)
      [] OTHER -> TRUE

\* PatientViewSet.get_permissions: every permission of the action passes;
\* the nested actions fall through to [IsAuthenticated()]
get_permissions(action, u) ==
    CASE action \in {"list", "retrieve"} -> PatientAccessPermission(u)
      [] action = "create" ->
            PatientAccessPermission(u) /\ IsNotNurse(u) /\ IsNotDoctor(u)
      [] action \in {"update", "partial_update"} -> StaffPatientPermission(u)
      [] action = "destroy" ->
            StaffPatientPermission(u) /\ IsNotNurse(u) /\ IsNotDoctor(u)
      [] OTHER -> TRUE

----------------------------------------------------------------------------
(* PatientViewSet.create: persist the Patient; post_save runs assign_patient *)

CreatePatient(t, u, prio) ==
    /\ txn[t].pc = "idle"
    /\ calls < MaxCalls
    /\ get_permissions("create", u)
    /\ UserHospital(u) # NoHospital
    /\ patients' = Append(patients, [hospital |-> UserHospital(u), priority |-> prio,
                                     created_by |-> u])
    /\ txn' = [txn EXCEPT ![t] =
                 EnterAssign(t, Len(patients) + 1,
                             IF UserRole(u) = "receptionist" THEN "again" ELSE "ai")]
    /\ calls' = calls + 1
    /\ UNCHANGED <<is_approved, is_active, availability, assignments, records, registered, user_role>>

\* a direct call of assign_patient(patient) on an existing patient
CallAssign(t, p) ==
    /\ txn[t].pc = "idle"
    /\ p \in 1..Len(patients)
    /\ calls < MaxCalls
    /\ txn' = [txn EXCEPT ![t] = EnterAssign(t, p, "none")]
    /\ calls' = calls + 1
    /\ UNCHANGED <<patients, is_approved, is_active, availability, assignments, records, registered, user_role>>

----------------------------------------------------------------------------
(* assign_patient, statement by statement *)

\* signal.signal / signal.alarm(10); the snapshot is what the database held
AssignEnter(t) ==
    /\ txn[t].pc = "a_enter"
    /\ txn' = [txn EXCEPT ![t].pc = "a_staff",
                          ![t].preA = assignments, ![t].preAv = availability]
    /\ UNCHANGED <<patients, is_approved, is_active, availability, assignments, calls, records, registered, user_role>>

\* signal.signal raises ValueError outside the main thread, before the try:
\* the exception leaves the atomic block, which rolls back (nothing written)
AssignSignalError(t) ==
    /\ txn[t].pc = "a_enter"
    /\ txn' = [txn EXCEPT ![t] =
                 [Returned(t, "error") EXCEPT !.preA = assignments,
                                              !.preAv = availability]]
    /\ UNCHANGED <<patients, is_approved, is_active, availability, assignments, calls, records, registered, user_role>>

\* staff lookup: primary class, then the other class; None -> return None
AssignFindStaff(t) ==
    /\ txn[t].pc = "a_staff"
    /\ LET h == PatientHospital(t)
           order == StaffOrder(PatientPriority(t))
           first == _find_available_staff(ViewAssignments(t), h, order[1])
           second == _find_available_staff(ViewAssignments(t), h, order[2])
           found == IF first # {} THEN first ELSE second
       IN  IF found = {}
           THEN /\ txn' = [txn EXCEPT ![t] = Returned(t, "no_staff")]
                /\ Commit(t)
           ELSE /\ \E s \in found : txn' = [txn EXCEPT ![t].staff = s, ![t].pc = "a_bed"]
                /\ UNCHANGED <<availability, assignments>>
    /\ UNCHANGED <<patients, is_approved, is_active, calls, records, registered, user_role>>

\* bed lookup; None -> return None
AssignFindBed(t) ==
    /\ txn[t].pc = "a_bed"
    /\ LET bed == FirstBed(ViewAvailability(t), PatientHospital(t))
       IN  IF bed = NoResource
           THEN /\ txn' = [txn EXCEPT ![t] = Returned(t, "no_bed")]
                /\ Commit(t)
           ELSE /\ txn' = [txn EXCEPT ![t].available_bed = bed, ![t].pc = "a_create"]
                /\ UNCHANGED <<availability, assignments>>
    /\ UNCHANGED <<patients, is_approved, is_active, calls, records, registered, user_role>>

\* Assignment.objects.create(patient, user=staff, resource=available_bed)
AssignCreate(t) ==
    /\ txn[t].pc = "a_create"
    /\ txn' = [txn EXCEPT
                 ![t].ins = @ (+) SetToBag({Row(txn[t].patient, txn[t].staff,
                                                txn[t].available_bed)}),
                 ![t].pc = "a_flip"]
    /\ UNCHANGED <<patients, is_approved, is_active, availability, assignments, calls, records, registered, user_role>>

\* available_bed.availability = False; save(update_fields=['availability'])
AssignFlip(t) ==
    /\ txn[t].pc = "a_flip"
    /\ RowFree(t, txn[t].available_bed)
    /\ txn' = [txn EXCEPT ![t].wAvail[txn[t].available_bed] = "F", ![t].pc = "a_ret"]
    /\ UNCHANGED <<patients, is_approved, is_active, availability, assignments, calls, records, registered, user_role>>

\* signal.alarm(0); return assignment
AssignReturn(t) ==
    /\ txn[t].pc = "a_ret"
    /\ txn' = [txn EXCEPT ![t] = Returned(t, "assignment")]
    /\ Commit(t)
    /\ UNCHANGED <<patients, is_approved, is_active, calls, records, registered, user_role>>

\* the alarm fires (or another exception is raised) inside the try: the
\* except clause returns None, so the atomic block exits normally
AssignTimeout(t) ==
    /\ txn[t].pc \in {"a_staff", "a_bed", "a_create", "a_flip", "a_ret"}
    /\ txn' = [txn EXCEPT ![t] = Returned(t, "timeout")]
    /\ Commit(t)
    /\ UNCHANGED <<patients, is_approved, is_active, calls, records, registered, user_role>>

----------------------------------------------------------------------------
(* reassign_patient, statement by statement *)

\* a call of reassign_patient(patient, new_staff)
CallReassign(t, p, u) ==
    /\ txn[t].pc = "idle"
    /\ p \in 1..Len(patients)
    /\ calls < MaxCalls
    /\ txn' = [txn EXCEPT ![t] =
                 [IdleTxn EXCEPT !.pc = "r_release", !.op = "reassign",
                                 !.patient = p, !.new_staff = u,
                                 !.preA = assignments, !.preAv = availability]]
    /\ calls' = calls + 1
    /\ UNCHANGED <<patients, is_approved, is_active, availability, assignments, records, registered, user_role>>

\* variant: the loop without the save of the bed
ReassignRelease_NoSave(t) ==
    /\ txn[t].pc = "r_release"
    /\ LET old == {x.resource : x \in BagToSet(RowsOfPatient(ViewAssignments(t), txn[t].patient))}
       IN  txn' = [txn EXCEPT ![t].old_beds = old, ![t].pc = "r_delete"]
    /\ UNCHANGED <<patients, is_approved, is_active, availability, assignments, calls, records, registered, user_role>>

\* for old_assignment in old_assignments: resource.availability = True; save
ReassignRelease(t) ==
    /\ txn[t].pc = "r_release"
    /\ LET old == {x.resource : x \in BagToSet(RowsOfPatient(ViewAssignments(t), txn[t].patient))}
       IN  /\ \A r \in old : RowFree(t, r)
           /\ txn' = [txn EXCEPT
                        ![t].wAvail = [r \in Resources |-> IF r \in old THEN "T" ELSE @[r]],
                        ![t].old_beds = old,
                        ![t].pc = "r_delete"]
    /\ UNCHANGED <<patients, is_approved, is_active, availability, assignments, calls, records, registered, user_role>>

\* variant: the old rows are kept
ReassignDelete_KeepRows(t) ==
    /\ txn[t].pc = "r_delete"
    /\ txn' = [txn EXCEPT ![t].pc = "r_bed"]
    /\ UNCHANGED <<patients, is_approved, is_active, availability, assignments, calls, records, registered, user_role>>

\* old_assignments.delete(): the filter is evaluated again here
ReassignDelete(t) ==
    /\ txn[t].pc = "r_delete"
    /\ \A o \in Procs \ {t} :
          BagToSet(txn[o].del) \cap BagToSet(RowsOfPatient(assignments, txn[t].patient)) = {}
    /\ txn' = [txn EXCEPT ![t].del = RowsOfPatient(assignments, txn[t].patient),
                          ![t].ins = @ (-) RowsOfPatient(@, txn[t].patient),
                          ![t].pc = "r_bed"]
    /\ UNCHANGED <<patients, is_approved, is_active, availability, assignments, calls, records, registered, user_role>>

\* variant: the bed lookup reads the committed rows, not the release just made
ReassignFindBed_CommittedOnly(t) ==
    /\ txn[t].pc = "r_bed"
    /\ LET bed == FirstBed(availability, PatientHospital(t))
       IN  IF bed = NoResource
           THEN /\ txn' = [txn EXCEPT ![t] = Returned(t, "no_bed")]
                /\ Commit(t)
           ELSE /\ txn' = [txn EXCEPT ![t].available_bed = bed, ![t].pc = "r_create"]
                /\ UNCHANGED <<availability, assignments>>
    /\ UNCHANGED <<patients, is_approved, is_active, calls, records, registered, user_role>>

\* bed lookup; None -> return None (the release and the delete are kept)
ReassignFindBed(t) ==
    /\ txn[t].pc = "r_bed"
    /\ LET bed == FirstBed(ViewAvailability(t), PatientHospital(t))
       IN  IF bed = NoResource
           THEN /\ txn' = [txn EXCEPT ![t] = Returned(t, "no_bed")]
                /\ Commit(t)
           ELSE /\ txn' = [txn EXCEPT ![t].available_bed = bed, ![t].pc = "r_create"]
                /\ UNCHANGED <<availability, assignments>>
    /\ UNCHANGED <<patients, is_approved, is_active, calls, records, registered, user_role>>

\* Assignment.objects.create(patient, resource=available_bed, user=new_staff)
ReassignCreate(t) ==
    /\ txn[t].pc = "r_create"
    /\ txn' = [txn EXCEPT
                 ![t].ins = @ (+) SetToBag({Row(txn[t].patient, txn[t].new_staff,
                                                txn[t].available_bed)}),
                 ![t].pc = "r_flip"]
    /\ UNCHANGED <<patients, is_approved, is_active, availability, assignments, calls, records, registered, user_role>>

\* available_bed.availability = False; save(update_fields=['availability'])
ReassignFlip(t) ==
    /\ txn[t].pc = "r_flip"
    /\ RowFree(t, txn[t].available_bed)
    /\ txn' = [txn EXCEPT ![t].wAvail[txn[t].available_bed] = "F", ![t].pc = "r_ret"]
    /\ UNCHANGED <<patients, is_approved, is_active, availability, assignments, calls, records, registered, user_role>>

\* return assignment
ReassignReturn(t) ==
    /\ txn[t].pc = "r_ret"
    /\ txn' = [txn EXCEPT ![t] = Returned(t, "assignment")]
    /\ Commit(t)
    /\ UNCHANGED <<patients, is_approved, is_active, calls, records, registered, user_role>>

----------------------------------------------------------------------------
(* After the call: the rest of the request *)

\* perform_create: a receptionist's request calls assign_patient_to_staff
\* (a second assign_patient); any other role goes on to the triage oracle
Finish(t) ==
    /\ txn[t].pc = "done"
    /\ txn' = [txn EXCEPT ![t] =
                 CASE txn[t].then = "again" -> EnterAssign(t, txn[t].patient, "none")
                   [] txn[t].then = "ai" -> [IdleTxn EXCEPT !.pc = "ai",
                                                             !.patient = txn[t].patient]
                   [] OTHER -> IdleTxn]
    /\ UNCHANGED <<patients, is_approved, is_active, availability, assignments, calls, records, registered, user_role>>

\* variant: an oracle failure undoes the creation of the patient
OracleStep_FailureAborts(t, prio) ==
    /\ txn[t].pc = "ai"
    /\ patients' =
          IF prio \in {"Critical", "High", "Medium"}
          THEN [patients EXCEPT ![txn[t].patient].priority = prio]
          ELSE SubSeq(patients, 1, Len(patients) - 1)
    /\ txn' = [txn EXCEPT ![t] = IdleTxn]
    /\ UNCHANGED <<is_approved, is_active, availability, assignments, calls, records, registered, user_role>>

\* get_ai_suggestion: 'Critical' / 'High' / 'Medium' in the answer set the
\* priority; no symptoms, another answer or an exception leave it alone
OracleStep(t, prio) ==
    /\ txn[t].pc = "ai"
    /\ patients' = [patients EXCEPT ![txn[t].patient].priority =
                       IF prio \in {"Critical", "High", "Medium"} THEN prio ELSE @]
    /\ txn' = [txn EXCEPT ![t] = IdleTxn]
    /\ UNCHANGED <<is_approved, is_active, availability, assignments, calls, records, registered, user_role>>

----------------------------------------------------------------------------
(* The REST API over patients: permissions, querysets, responses *)

\* the ids a request may name: those of the patients and one of no patient
PatientIds == 1..(Len(patients) + 1)

\* what a PATCH of a patient may carry
UpdatePayloads ==
    {[field |-> "symptoms", value |-> "none"],
     [field |-> "priority", value |-> "Critical"],
     [field |-> "assigned_doctor", value |-> "d2"]}

Methods == {"GET", "POST"}

\* variant: the hospital's patients instead of the user's own
Linked_SameHospital(u, p) ==
    p \in 1..Len(patients) /\ patients[p].hospital = UserHospital(u)

\* filter(assignment__user=user): an Assignment of u on patient p exists
Linked(u, p) == \E x \in BagToSet(assignments) : x.patient = p /\ x.user = u

\* variant: hospital administrators see every patient
get_queryset_AdminSeesAll(u) ==
    LET all == 1..Len(patients)
    IN  CASE UserRole(u) \in {"admin", "hospital_admin"} -> all
          [] UserRole(u) = "doctor" -> {p \in all : Linked(u, p)}
          [] UserRole(u) = "nurse" -> {p \in all : Linked(u, p)}
          [] UserRole(u) = "receptionist" /\ UserHospital(u) # NoHospital ->
                {p \in all : patients[p].hospital = UserHospital(u)}
          [] OTHER -> {}

\* PatientViewSet.get_queryset: the patients the requester may address
get_queryset(u) ==
    LET all == 1..Len(patients)
    IN  CASE UserRole(u) = "admin" -> all
          [] UserRole(u) = "doctor" -> {p \in all : Linked(u, p)}
          [] UserRole(u) = "nurse" -> {p \in all : Linked(u, p)}
          [] UserRole(u) = "receptionist" /\ UserHospital(u) # NoHospital ->
                {p \in all : patients[p].hospital = UserHospital(u)}
          [] OTHER -> {}

\* the response of a finished request, kept until the next one starts
Response(op, u, p, m, res, body) ==
    [IdleTxn EXCEPT !.pc = "done", !.op = op, !.user = u, !.patient = p,
                    !.method = m, !.result = res, !.body = body]

\* GET /patients/
PatientList(t, u) ==
    /\ txn[t].pc = "idle"
    /\ txn' = [txn EXCEPT ![t] =
                 IF get_permissions("list", u)
                 THEN Response("list", u, NoPatient, "GET", "ok", get_queryset(u))
                 ELSE Response("list", u, NoPatient, "GET", "forbidden", {})]
    /\ UNCHANGED <<patients, is_approved, is_active, availability, assignments, calls, records, registered, user_role>>

\* GET /patients/<p>/: permissions, then get_object on the queryset
PatientRetrieve(t, u, p) ==
    /\ txn[t].pc = "idle"
    /\ txn' = [txn EXCEPT ![t] =
                 CASE ~get_permissions("retrieve", u) ->
                        Response("retrieve", u, p, "GET", "forbidden", {})
                   [] get_permissions("retrieve", u) /\ p \notin get_queryset(u) ->
                        Response("retrieve", u, p, "GET", "not_found", {})
                   [] OTHER -> Response("retrieve", u, p, "GET", "ok", {p})]
    /\ UNCHANGED <<patients, is_approved, is_active, availability, assignments, calls, records, registered, user_role>>

\* variant: perform_update without the check of the assignment fields
UpdateOutcome_NoAssignmentGuard(u, p, payload) ==
    CASE ~get_permissions("partial_update", u) -> "forbidden"
      [] get_permissions("partial_update", u) /\ p \notin get_queryset(u) -> "not_found"
      [] OTHER -> "ok"

\* the outcome of PATCH /patients/<p>/: permissions, get_object, perform_update
UpdateOutcome(u, p, payload) ==
    CASE ~get_permissions("partial_update", u) -> "forbidden"
      [] get_permissions("partial_update", u) /\ p \notin get_queryset(u) -> "not_found"
      [] OTHER ->
            IF UserRole(u) # "super_admin"
               /\ payload.field \in {"assigned_doctor", "assigned_nurse", "assigned_staff"}
            THEN "forbidden"
            ELSE "ok"

\* PATCH /patients/<p>/: priority is writable for a doctor and read-only for
\* a nurse; symptoms are not part of the state
PatientUpdate(t, u, p, payload) ==
    /\ txn[t].pc = "idle"
    /\ txn' = [txn EXCEPT ![t] =
                 Response("update", u, p, "PATCH", UpdateOutcome(u, p, payload),
                          {payload.field})]
    /\ patients' =
          IF /\ UpdateOutcome(u, p, payload) = "ok"
             /\ payload.field = "priority"
             /\ UserRole(u) # "nurse"
          THEN [patients EXCEPT ![p].priority = payload.value]
          ELSE patients
    /\ UNCHANGED <<is_approved, is_active, availability, assignments, calls, records, registered, user_role>>

\* POST /patients/ that the permissions or perform_create turn down
CreatePatientDenied(t, u) ==
    /\ txn[t].pc = "idle"
    /\ ~get_permissions("create", u) \/ UserHospital(u) = NoHospital
    /\ txn' = [txn EXCEPT ![t] =
                 Response("create", u, NoPatient, "POST",
                          IF ~get_permissions("create", u) THEN "forbidden"
                          ELSE "bad_request", {})]
    /\ UNCHANGED <<patients, is_approved, is_active, availability, assignments, calls, records, registered, user_role>>

----------------------------------------------------------------------------
(* Clinical sub-records: Observation, Diagnosis, TestOrder, Prescription     *)
(* (nested actions of PatientViewSet), Note and LabReport (own viewsets)     *)

OrderKinds == {"Diagnosis", "TestOrder", "Prescription"}

StandaloneKinds == {"Note", "LabReport"}

Texts == {"v1", "v2"}

\* the keys a request may name: those of the records and one of no record
RecordIds == 1..(Len(records) + 1)

\* who asks for notes and lab reports
RecordUsers == {"d1", "n1", "rc1", "d3"}

\* admissions while the clinical records are exercised
IntakeUsers == {"rc1", "ha2"}

IntakePriorities == {"Low", "High"}

QuietOracle == {"other"}

\* a new row: author is the nurse / doctor / created_by column; by and linked
\* remember who asked for it and whether an Assignment linked them then
NewRecord(kind, p, u) ==
    [kind |-> kind, patient |-> p, author |-> u, by |-> u,
     linked |-> Linked(u, p), text |-> "v1", live |-> TRUE]

\* <Model>.objects.filter(patient=p): the keys of the rows of one kind
RecordsOf(kind, p) ==
    {i \in 1..Len(records) :
        records[i].live /\ records[i].kind = kind /\ records[i].patient = p}

\* the outcome of /patients/<p>/observations/
ObservationsOutcome(u, p, m) ==
    CASE p \notin get_queryset(u) -> "not_found"
      [] p \in get_queryset(u) /\ UserRole(u) = "nurse" /\ ~NursePatientPermission(u, p) ->
            "forbidden"
      [] OTHER ->
            IF m = "POST"
            THEN IF UserRole(u) # "nurse" THEN "forbidden" ELSE "created"
            ELSE "ok"

\* GET or POST /patients/<p>/observations/
Observations(t, u, p, m) ==
    /\ txn[t].pc = "idle"
    /\ LET res == ObservationsOutcome(u, p, m)
       IN  /\ res = "created" => calls < MaxCalls
           /\ txn' = [txn EXCEPT ![t] =
                        Response("observations", u, p, m, res,
                                 IF res = "ok" THEN RecordsOf("Observation", p) ELSE {})]
           /\ records' = IF res = "created"
                         THEN Append(records, NewRecord("Observation", p, u))
                         ELSE records
           /\ calls' = IF res = "created" THEN calls + 1 ELSE calls
    /\ UNCHANGED <<patients, is_approved, is_active, availability, assignments, registered, user_role>>

\* variant: the object check without user__role='doctor'
OrderOutcome_AnyAssignedRole(u, p, m) ==
    CASE p \notin get_queryset(u) -> "not_found"
      [] p \in get_queryset(u) /\ ~Linked(u, p) -> "forbidden"
      [] OTHER -> IF m = "POST" THEN "created" ELSE "ok"

\* the outcome of /patients/<p>/diagnosis/, /tests/ and /prescriptions/
OrderOutcome(u, p, m) ==
    CASE p \notin get_queryset(u) -> "not_found"
      [] p \in get_queryset(u) /\ ~DoctorPatientPermission(u, p) -> "forbidden"
      [] OTHER -> IF m = "POST" THEN "created" ELSE "ok"

\* GET or POST /patients/<p>/diagnosis/ (tests/, prescriptions/)
ClinicalOrder(t, u, p, kind, m) ==
    /\ txn[t].pc = "idle"
    /\ LET res == OrderOutcome(u, p, m)
       IN  /\ res = "created" => calls < MaxCalls
           /\ txn' = [txn EXCEPT ![t] =
                        Response(kind, u, p, m, res,
                                 IF res = "ok" THEN RecordsOf(kind, p) ELSE {})]
           /\ records' = IF res = "created"
                         THEN Append(records, NewRecord(kind, p, u))
                         ELSE records
           /\ calls' = IF res = "created" THEN calls + 1 ELSE calls
    /\ UNCHANGED <<patients, is_approved, is_active, availability, assignments, registered, user_role>>

\* NoteViewSet: IsNotReceptionist; LabReportViewSet.check_permissions: no nurse
RecordPermission(kind, u) ==
    IF kind = "Note" THEN IsNotReceptionist(u) ELSE UserRole(u) # "nurse"

\* NoteViewSet.get_queryset / LabReportViewSet.get_queryset
RecordQueryset(kind, u) ==
    {i \in 1..Len(records) :
        /\ records[i].live
        /\ records[i].kind = kind
        /\ \/ UserRole(u) = "super_admin"
           \/ /\ UserHospital(u) # NoHospital
              /\ patients[records[i].patient].hospital = UserHospital(u)}

\* POST /notes/ or /lab-reports/: the patient comes from the payload
RecordCreate(t, u, kind, p) ==
    /\ txn[t].pc = "idle"
    /\ LET res == CASE ~RecordPermission(kind, u) -> "forbidden"
                    [] RecordPermission(kind, u) /\ p \notin 1..Len(patients) -> "bad_request"
                    [] OTHER -> "created"
       IN  /\ res = "created" => calls < MaxCalls
           /\ txn' = [txn EXCEPT ![t] = Response(kind, u, p, "POST", res, {})]
           /\ records' = IF res = "created"
                         THEN Append(records, NewRecord(kind, p, u))
                         ELSE records
           /\ calls' = IF res = "created" THEN calls + 1 ELSE calls
    /\ UNCHANGED <<patients, is_approved, is_active, availability, assignments, registered, user_role>>

\* the outcome of a request on /notes/<i>/ or /lab-reports/<i>/
RecordObjectOutcome(kind, u, i) ==
    CASE ~RecordPermission(kind, u) -> "forbidden"
      [] RecordPermission(kind, u) /\ i \notin RecordQueryset(kind, u) -> "not_found"
      [] OTHER -> "ok"

\* GET /notes/ or /lab-reports/ (ListModelMixin)
RecordList(t, u, kind) ==
    /\ txn[t].pc = "idle"
    /\ txn' = [txn EXCEPT ![t] =
                 IF RecordPermission(kind, u)
                 THEN Response(kind, u, NoPatient, "GET", "ok", RecordQueryset(kind, u))
                 ELSE Response(kind, u, NoPatient, "GET", "forbidden", {})]
    /\ UNCHANGED <<patients, is_approved, is_active, availability, assignments, calls, records, registered, user_role>>

\* PATCH /notes/<i>/ or /lab-reports/<i>/ (UpdateModelMixin)
RecordUpdate(t, u, kind, i, text) ==
    /\ txn[t].pc = "idle"
    /\ txn' = [txn EXCEPT ![t] =
                 Response(kind, u, NoPatient, "PATCH", RecordObjectOutcome(kind, u, i), {i})]
    /\ records' = IF RecordObjectOutcome(kind, u, i) = "ok"
                  THEN [records EXCEPT ![i].text = text]
                  ELSE records
    /\ UNCHANGED <<patients, is_approved, is_active, availability, assignments, calls, registered, user_role>>

\* DELETE /notes/<i>/ or /lab-reports/<i>/ (DestroyModelMixin)
RecordDestroy(t, u, kind, i) ==
    /\ txn[t].pc = "idle"
    /\ txn' = [txn EXCEPT ![t] =
                 Response(kind, u, NoPatient, "DELETE", RecordObjectOutcome(kind, u, i), {i})]
    /\ records' = IF RecordObjectOutcome(kind, u, i) = "ok"
                  THEN [records EXCEPT ![i].live = FALSE]
                  ELSE records
    /\ UNCHANGED <<patients, is_approved, is_active, availability, assignments, calls, registered, user_role>>

----------------------------------------------------------------------------
(* ResourceViewSet *)

\* who sends resource updates
ResourceUsers == {"n1", "d1", "rc1", "ha2"}

\* ResourceViewSet.get_queryset
ResourceQueryset(u) ==
    IF UserRole(u) = "super_admin" THEN Resources
    ELSE {r \in Resources : ResourceHospital(r) = UserHospital(u)}

\* the outcome of PATCH /resources/<r>/: check_permissions turns a doctor
\* down, IsNotReceptionist a receptionist, get_object a foreign resource
ResourceUpdateOutcome(u, r) ==
    CASE UserRole(u) = "doctor" \/ ~IsNotReceptionist(u) -> "forbidden"
      [] UserRole(u) # "doctor" /\ IsNotReceptionist(u) /\ r \notin ResourceQueryset(u) ->
            "not_found"
      [] OTHER -> "ok"

\* PATCH /resources/<r>/ {availability: av} (UpdateModelMixin, all fields)
ResourceUpdate(t, u, r, av) ==
    /\ txn[t].pc = "idle"
    /\ txn' = [txn EXCEPT ![t] =
                 Response("resource_update", u, NoPatient, "PATCH",
                          ResourceUpdateOutcome(u, r), {r})]
    /\ availability' = IF ResourceUpdateOutcome(u, r) = "ok"
                       THEN [availability EXCEPT ![r] = av] ELSE availability
    /\ UNCHANGED <<patients, is_approved, is_active, assignments, calls, records, registered, user_role>>

----------------------------------------------------------------------------
(* Accounts: registration, approval workflow, login *)

\* who registers in the course of a behaviour
Applicants == {"d2"}

\* the accounts the workflow is exercised on
AccountUsers == {"d1", "d2"}

\* who calls the user-management endpoints
Operators == {"adm", "sa"}

Passwords == {"right", "wrong"}

\* accounts.permissions.IsAdmin
IsAdmin(a) == UserRole(a) = "admin"

\* ApprovedUserBackend.authenticate
authenticate(u, pw) ==
    /\ u \in registered
    /\ pw = "right"
    /\ is_active[u]
    /\ is_approved[u]

\* variant: the checks of the stock token view (password and is_active)
TokenOutcome_ActiveOnly(u, pw) ==
    IF u \in registered /\ pw = "right" /\ is_active[u] THEN "token" ELSE "denied"

\* CustomTokenObtainPairSerializer.validate: tokens only for an account that
\* authenticates and is approved and active
TokenOutcome(u, pw) ==
    IF authenticate(u, pw) /\ is_approved[u] /\ is_active[u] THEN "token" ELSE "denied"

\* POST /token/
Login(t, u, pw) ==
    /\ txn[t].pc = "idle"
    /\ txn' = [txn EXCEPT ![t] =
                 Response("login", u, NoPatient, "POST", TokenOutcome(u, pw), {pw})]
    /\ UNCHANGED <<patients, is_approved, is_active, availability, assignments, calls, records, registered, user_role>>

\* POST /register/: the email is unique, super_admin cannot be asked for;
\* the row is saved inactive and unapproved
Register(t, u) ==
    /\ txn[t].pc = "idle"
    /\ LET ok == u \notin registered /\ UserRole(u) # "super_admin"
       IN  /\ txn' = [txn EXCEPT ![t] =
                        Response("register", u, NoPatient, "POST",
                                 IF ok THEN "created" ELSE "bad_request", {})]
           /\ registered' = IF ok THEN registered \cup {u} ELSE registered
           /\ is_active' = IF ok THEN [is_active EXCEPT ![u] = FALSE] ELSE is_active
           /\ is_approved' = IF ok THEN [is_approved EXCEPT ![u] = FALSE] ELSE is_approved
    /\ UNCHANGED <<patients, availability, assignments, calls, records, user_role>>

\* the outcome of a detail action of UserManagementViewSet
ManageOutcome(a, u) ==
    CASE ~IsAdmin(a) -> "forbidden"
      [] IsAdmin(a) /\ u \notin registered -> "not_found"
      [] OTHER -> "ok"

\* POST /users/<u>/approve/
Approve(t, a, u) ==
    /\ txn[t].pc = "idle"
    /\ txn' = [txn EXCEPT ![t] =
                 Response("approve", a, NoPatient, "POST", ManageOutcome(a, u), {u})]
    /\ is_approved' = IF ManageOutcome(a, u) = "ok"
                      THEN [is_approved EXCEPT ![u] = TRUE] ELSE is_approved
    /\ is_active' = IF ManageOutcome(a, u) = "ok"
                    THEN [is_active EXCEPT ![u] = TRUE] ELSE is_active
    /\ UNCHANGED <<patients, availability, assignments, calls, records, registered, user_role>>

\* POST /users/<u>/reject/
Reject(t, a, u) ==
    /\ txn[t].pc = "idle"
    /\ txn' = [txn EXCEPT ![t] =
                 Response("reject", a, NoPatient, "POST", ManageOutcome(a, u), {u})]
    /\ is_approved' = IF ManageOutcome(a, u) = "ok"
                      THEN [is_approved EXCEPT ![u] = FALSE] ELSE is_approved
    /\ is_active' = IF ManageOutcome(a, u) = "ok"
                    THEN [is_active EXCEPT ![u] = FALSE] ELSE is_active
    /\ UNCHANGED <<patients, availability, assignments, calls, records, registered, user_role>>

\* POST /users/<u>/deactivate/: refused for an account of role 'admin'
Deactivate(t, a, u) ==
    /\ txn[t].pc = "idle"
    /\ LET res == IF ManageOutcome(a, u) = "ok" /\ UserRole(u) = "admin"
                  THEN "forbidden" ELSE ManageOutcome(a, u)
       IN  /\ txn' = [txn EXCEPT ![t] =
                        Response("deactivate", a, NoPatient, "POST", res, {u})]
           /\ is_active' = IF res = "ok"
                           THEN [is_active EXCEPT ![u] = FALSE] ELSE is_active
    /\ UNCHANGED <<patients, is_approved, availability, assignments, calls, records, registered, user_role>>

\* variant: activation that also approves
Activate_AlsoApproves(t, a, u) ==
    /\ txn[t].pc = "idle"
    /\ txn' = [txn EXCEPT ![t] =
                 Response("activate", a, NoPatient, "POST", ManageOutcome(a, u), {u})]
    /\ is_active' = IF ManageOutcome(a, u) = "ok"
                    THEN [is_active EXCEPT ![u] = TRUE] ELSE is_active
    /\ is_approved' = IF ManageOutcome(a, u) = "ok"
                      THEN [is_approved EXCEPT ![u] = TRUE] ELSE is_approved
    /\ UNCHANGED <<patients, availability, assignments, calls, records, registered, user_role>>

\* POST /users/<u>/activate/
Activate(t, a, u) ==
    /\ txn[t].pc = "idle"
    /\ txn' = [txn EXCEPT ![t] =
                 Response("activate", a, NoPatient, "POST", ManageOutcome(a, u), {u})]
    /\ is_active' = IF ManageOutcome(a, u) = "ok"
                    THEN [is_active EXCEPT ![u] = TRUE] ELSE is_active
    /\ UNCHANGED <<patients, is_approved, availability, assignments, calls, records, registered, user_role>>

\* the roles a role change asks for; 'admin' is not among ROLE_CHOICES
RoleTargets == {"nurse", "super_admin", "admin"}

\* who sends role changes
RoleRequesters == {"sa", "ha2", "d1", "adm"}

\* PATCH /users/<u>/change_role/ and PATCH /users/<u>/ of UserManagementViewSet:
\* IsAdmin, get_object, then the role is checked against ROLE_CHOICES and saved
ManageRoleOutcome(a, u, r) ==
    CASE ManageOutcome(a, u) # "ok" -> ManageOutcome(a, u)
      [] ManageOutcome(a, u) = "ok" /\ r \notin ROLE_CHOICES -> "bad_request"
      [] OTHER -> "ok"

\* PATCH /users/<u>/change_role/ {role: r}
ChangeRole(t, a, u, r) ==
    /\ txn[t].pc = "idle"
    /\ txn' = [txn EXCEPT ![t] =
                 Response("change_role", a, NoPatient, "PATCH",
                          ManageRoleOutcome(a, u, r), {u, r})]
    /\ user_role' = IF ManageRoleOutcome(a, u, r) = "ok"
                    THEN [user_role EXCEPT ![u] = r] ELSE user_role
    /\ UNCHANGED <<patients, is_approved, is_active, availability, assignments, calls, records, registered>>

\* PATCH /users/<u>/ {role: r} answered by UserManagementViewSet (ModelViewSet
\* update with accounts.UserSerializer, where role is writable)
ManagementUpdate(t, a, u, r) ==
    /\ txn[t].pc = "idle"
    /\ txn' = [txn EXCEPT ![t] =
                 Response("manage_update", a, NoPatient, "PATCH",
                          ManageRoleOutcome(a, u, r), {u, r})]
    /\ user_role' = IF ManageRoleOutcome(a, u, r) = "ok"
                    THEN [user_role EXCEPT ![u] = r] ELSE user_role
    /\ UNCHANGED <<patients, is_approved, is_active, availability, assignments, calls, records, registered>>

\* the outcome of PATCH /users/<u>/ answered by core UserViewSet:
\* check_permissions turns a doctor down; for anyone else get_permissions
\* evaluates the name IsSuperAdmin, which the module never binds (NameError)
UserUpdateOutcome(a) ==
    IF UserRole(a) = "doctor" THEN "forbidden" ELSE "server_error"

\* PATCH /users/<u>/ {role: r} answered by core UserViewSet: nothing is saved
UserUpdate(t, a, u, r) ==
    /\ txn[t].pc = "idle"
    /\ txn' = [txn EXCEPT ![t] =
                 Response("user_update", a, NoPatient, "PATCH", UserUpdateOutcome(a), {u, r})]
    /\ UNCHANGED <<patients, is_approved, is_active, availability, assignments, calls, records, registered, user_role>>

----------------------------------------------------------------------------
(* Specifications *)

Step(t) ==
    \/ \E u \in Users, prio \in Priorities : CreatePatient(t, u, prio)
    \/ \E p \in 1..MaxCalls : CallAssign(t, p)
    \/ AssignEnter(t)
    \/ AssignFindStaff(t)
    \/ AssignFindBed(t)
    \/ AssignCreate(t)
    \/ AssignFlip(t)
    \/ AssignReturn(t)
    \/ \E p \in 1..MaxCalls, u \in NewStaffInputs : CallReassign(t, p, u)
    \/ ReassignRelease(t)
    \/ ReassignDelete(t)
    \/ ReassignFindBed(t)
    \/ ReassignCreate(t)
    \/ ReassignFlip(t)
    \/ ReassignReturn(t)
    \/ Finish(t)
    \/ \E prio \in OracleAnswers : OracleStep(t, prio)

Fault(t) ==
    \/ AssignSignalError(t)
    \/ AssignTimeout(t)

\* one request at a time; the alarm may fire at any statement
Next == \E t \in SeqProcs : Step(t) \/ Fault(t)

Spec == Init /\ [][Next]_vars

\* one request at a time, no alarm and no exception
FaultFreeNext == \E t \in SeqProcs : Step(t)

FaultFreeSpec == Init /\ [][FaultFreeNext]_vars

\* concurrent admissions: fault-free assign_patient transactions interleaved
ConcStep(t) ==
    \/ \E u \in Users, prio \in Priorities : CreatePatient(t, u, prio)
    \/ \E p \in 1..MaxCalls : CallAssign(t, p)
    \/ AssignEnter(t)
    \/ AssignFindStaff(t)
    \/ AssignFindBed(t)
    \/ AssignCreate(t)
    \/ AssignFlip(t)
    \/ AssignReturn(t)
    \/ Finish(t)
    \/ \E prio \in OracleAnswers : OracleStep(t, prio)

ConcNext == \E t \in Procs : ConcStep(t)

ConcSpec == Init /\ [][ConcNext]_vars

\* the patient endpoints next to the assignment engine, one request at a time
PatientApiStep(t) ==
    \/ \E u \in Users : PatientList(t, u)
    \/ \E u \in Users, p \in PatientIds : PatientRetrieve(t, u, p)
    \/ \E u \in Users, p \in PatientIds, payload \in UpdatePayloads :
          PatientUpdate(t, u, p, payload)
    \/ \E u \in Users : CreatePatientDenied(t, u)

PatientApiNext == \E t \in SeqProcs : Step(t) \/ PatientApiStep(t)

PatientApiSpec == Init /\ [][PatientApiNext]_vars

\* every account approved and active
ApprovedInit ==
    /\ patients = << >>
    /\ is_approved = [u \in Users |-> TRUE]
    /\ is_active = [u \in Users |-> TRUE]
    /\ availability = [r \in Resources |-> TRUE]
    /\ assignments = EmptyBag
    /\ txn = [t \in Procs |-> IdleTxn]
    /\ calls = 0
    /\ records = << >>
    /\ registered = Users
    /\ user_role = [u \in Users |-> InitialRole(u)]

\* admissions (with their automatic assignment) and the record endpoints
RecordStep(t) ==
    \/ \E u \in IntakeUsers, prio \in IntakePriorities : CreatePatient(t, u, prio)
    \/ AssignEnter(t)
    \/ AssignFindStaff(t)
    \/ AssignFindBed(t)
    \/ AssignCreate(t)
    \/ AssignFlip(t)
    \/ AssignReturn(t)
    \/ Finish(t)
    \/ \E prio \in QuietOracle : OracleStep(t, prio)
    \/ \E u \in Users, p \in PatientIds, m \in Methods : Observations(t, u, p, m)
    \/ \E u \in Users, p \in PatientIds, kind \in OrderKinds, m \in Methods :
          ClinicalOrder(t, u, p, kind, m)
    \/ \E u \in RecordUsers, kind \in StandaloneKinds, p \in PatientIds :
          RecordCreate(t, u, kind, p)
    \/ \E u \in RecordUsers, kind \in StandaloneKinds : RecordList(t, u, kind)
    \/ \E u \in RecordUsers, kind \in StandaloneKinds, i \in RecordIds, text \in Texts :
          RecordUpdate(t, u, kind, i, text)
    \/ \E u \in RecordUsers, kind \in StandaloneKinds, i \in RecordIds :
          RecordDestroy(t, u, kind, i)

RecordNext == \E t \in SeqProcs : RecordStep(t)

RecordSpec == ApprovedInit /\ [][RecordNext]_vars

\* the applicants have no account yet; every other account is approved, active
AccountInit ==
    /\ patients = << >>
    /\ is_approved = [u \in Users |-> u \notin Applicants]
    /\ is_active = [u \in Users |-> u \notin Applicants]
    /\ availability = [r \in Resources |-> TRUE]
    /\ assignments = EmptyBag
    /\ txn = [t \in Procs |-> IdleTxn]
    /\ calls = 0
    /\ records = << >>
    /\ registered = Users \ Applicants
    /\ user_role = [u \in Users |-> InitialRole(u)]

\* the approval workflow and logins, one request at a time
AccountStep(t) ==
    \/ \E u \in AccountUsers : Register(t, u)
    \/ \E a \in Operators, u \in AccountUsers : Approve(t, a, u)
    \/ \E a \in Operators, u \in AccountUsers : Reject(t, a, u)
    \/ \E a \in Operators, u \in AccountUsers : Deactivate(t, a, u)
    \/ \E a \in Operators, u \in AccountUsers : Activate(t, a, u)
    \/ \E u \in AccountUsers, pw \in Passwords : Login(t, u, pw)
    \/ \E a \in Operators, u \in AccountUsers, r \in RoleTargets : ChangeRole(t, a, u, r)
    \/ \E a \in Operators, u \in AccountUsers, r \in RoleTargets :
          ManagementUpdate(t, a, u, r)
    \/ \E a \in RoleRequesters, u \in AccountUsers, r \in RoleTargets :
          UserUpdate(t, a, u, r)
    \/ Finish(t)

AccountNext == \E t \in SeqProcs : AccountStep(t)

AccountSpec == AccountInit /\ [][AccountNext]_vars

\* admissions, reassignments and the resource endpoint, one request at a time
ResourceStep(t) ==
    \/ \E u \in IntakeUsers, prio \in IntakePriorities : CreatePatient(t, u, prio)
    \/ AssignEnter(t)
    \/ AssignFindStaff(t)
    \/ AssignFindBed(t)
    \/ AssignCreate(t)
    \/ AssignFlip(t)
    \/ AssignReturn(t)
    \/ \E p \in 1..MaxCalls, u \in NewStaffInputs : CallReassign(t, p, u)
    \/ ReassignRelease(t)
    \/ ReassignDelete(t)
    \/ ReassignFindBed(t)
    \/ ReassignCreate(t)
    \/ ReassignFlip(t)
    \/ ReassignReturn(t)
    \/ Finish(t)
    \/ \E prio \in QuietOracle : OracleStep(t, prio)
    \/ \E u \in ResourceUsers, r \in Resources, av \in BOOLEAN : ResourceUpdate(t, u, r, av)

ResourceNext == \E t \in SeqProcs : ResourceStep(t)

ResourceSpec == ApprovedInit /\ [][ResourceNext]_vars

----------------------------------------------------------------------------
(* Properties *)

Eligible(h, role) ==
    {u \in Users : UserHospital(u) = h /\ UserRole(u) = role
                   /\ is_approved[u] /\ is_active[u]}

EndedAssign(t) == txn[t].pc = "done" /\ txn[t].op = "assign"

Succeeded(t) == EndedAssign(t) /\ txn[t].result = "assignment"

Unchanged(t) == assignments = txn[t].preA /\ availability = txn[t].preAv

\* C1: every Patient has at most one Assignment, after any sequence of
\* patient creations, assign_patient calls and reassign_patient calls.
C1_AtMostOneAssignmentPerPatient ==
    \A p \in 1..Len(patients) : CountOfPatient(assignments, p) <= 1

\* C2: the bed of every Assignment is unavailable and no bed is referenced
\* by more than one Assignment.
C2_BedsUnavailableAndUnshared ==
    \A r \in Resources :
        CountOnResource(assignments, r) >= 1 =>
            /\ availability[r] = FALSE
            /\ CountOnResource(assignments, r) = 1

\* C3: assign_patient on a patient that already has an Assignment creates no
\* second Assignment and makes no other bed unavailable.
C3_NoSecondAssignment ==
    \A t \in Procs :
        (EndedAssign(t) /\ CountOfPatient(txn[t].preA, txn[t].patient) >= 1) =>
            /\ CountOfPatient(assignments, txn[t].patient)
                  = CountOfPatient(txn[t].preA, txn[t].patient)
            /\ availability = txn[t].preAv

\* C4: two concurrent assign_patient transactions for different patients never
\* both commit an Assignment on the same bed.
C4_NoBedCommittedTwice ==
    \A x, y \in BagToSet(assignments) :
        x.patient # y.patient => x.resource # y.resource

\* C5: when the deadline expires or a fault occurs during assign_patient, no
\* partial write is committed: Assignments and bed availability are as before.
C5_TimeoutLeavesNoPartialWrite ==
    \A t \in Procs :
        (EndedAssign(t) /\ txn[t].result \in {"timeout", "error"}) => Unchanged(t)

\* C6: a successful assign_patient picks the primary class of the priority
\* (doctor for High/Critical, nurse for Low/Medium) whenever the hospital has
\* an active and approved member of it, and the other class only otherwise.
C6_StaffClassFollowsPriority ==
    \A t \in Procs :
        Succeeded(t) =>
            LET h == patients[txn[t].patient].hospital
                prio == patients[txn[t].patient].priority
                primary == IF prio \in {"High", "Critical"} THEN "doctor" ELSE "nurse"
                other == IF prio \in {"High", "Critical"} THEN "nurse" ELSE "doctor"
            IN  UserRole(txn[t].staff)
                    = IF Eligible(h, primary) # {} THEN primary ELSE other

C6_Witness ==
    \E t \in Procs :
        /\ Succeeded(t)
        /\ patients[txn[t].patient].priority \in {"High", "Critical"}
        /\ UserRole(txn[t].staff) = "nurse"

\* C7: the staff member of a successful assign_patient has, at the time of the
\* call, the fewest Assignments among the active and approved staff of the
\* chosen class in the patient's hospital.
C7_LowestWorkload ==
    \A t \in Procs :
        Succeeded(t) =>
            \A v \in Eligible(patients[txn[t].patient].hospital, UserRole(txn[t].staff)) :
                active_assignments(txn[t].preA, txn[t].staff)
                    <= active_assignments(txn[t].preA, v)

C7_Witness ==
    \E t \in Procs :
        /\ Succeeded(t)
        /\ \E v \in Eligible(patients[txn[t].patient].hospital, UserRole(txn[t].staff)) :
              active_assignments(txn[t].preA, txn[t].staff)
                  < active_assignments(txn[t].preA, v)

\* C8: every Assignment that assign_patient writes links the patient to an
\* approved, active doctor or nurse of the patient's hospital and to a bed of
\* the patient's hospital.
C8_OnlyEligibleStaffAndOwnBed ==
    \A t \in Procs :
        EndedAssign(t) =>
            \A x \in BagToSet(assignments (-) txn[t].preA) :
                /\ x.patient = txn[t].patient
                /\ is_approved[x.user]
                /\ is_active[x.user]
                /\ UserRole(x.user) \in {"doctor", "nurse"}
                /\ UserHospital(x.user) = patients[x.patient].hospital
                /\ ResourceHospital(x.resource) = patients[x.patient].hospital

C8_Witness ==
    \E t \in Procs :
        /\ Succeeded(t)
        /\ BagToSet(assignments (-) txn[t].preA) # {}
        /\ \E u \in Users :
              /\ UserHospital(u) = patients[txn[t].patient].hospital
              /\ UserRole(u) = UserRole(txn[t].staff)
              /\ ~is_approved[u]
        /\ \E u \in Users :
              /\ UserHospital(u) # patients[txn[t].patient].hospital
              /\ UserRole(u) = UserRole(txn[t].staff)
              /\ is_approved[u] /\ is_active[u]

\* C9: when the hospital has no active and approved doctor or nurse, or no
\* available bed, assign_patient returns no Assignment and leaves the
\* Assignments and the availability of every bed unchanged.
C9_NoCapacityNoEffect ==
    \A t \in Procs :
        LET h == patients[txn[t].patient].hospital
        IN  (/\ EndedAssign(t)
             /\ \/ Eligible(h, "doctor") \cup Eligible(h, "nurse") = {}
                \/ \A r \in Resources :
                      (ResourceHospital(r) = h /\ ResourceType(r) = "Bed")
                          => ~txn[t].preAv[r])
            => /\ txn[t].result # "assignment"
               /\ Unchanged(t)

C9_Witness ==
    \E t \in Procs :
        /\ EndedAssign(t)
        /\ txn[t].result = "no_bed"
        /\ txn[t].staff # NoUser
        /\ assignments # EmptyBag

\* C10: in reassign_patient the bed of every Assignment the patient held
\* before the call is available again before the new bed is looked up and
\* before the new Assignment is created.
C10_ReleaseBeforeAcquire ==
    \A t \in Procs :
        txn[t].op = "reassign" =>
            /\ txn[t].pc \in {"r_release", "r_delete"} =>
                  txn[t].ins = EmptyBag /\ txn[t].available_bed = NoResource
            /\ txn[t].pc \in {"r_bed", "r_create", "r_flip"} =>
                  \A x \in BagToSet(RowsOfPatient(txn[t].preA, txn[t].patient)) :
                      ViewAvailability(t)[x.resource]

C10_Witness ==
    \E t \in Procs :
        /\ txn[t].op = "reassign"
        /\ txn[t].pc = "r_bed"
        /\ \E x \in BagToSet(RowsOfPatient(txn[t].preA, txn[t].patient)) :
              ~txn[t].preAv[x.resource]

----------------------------------------------------------------------------
(* Properties of the REST API *)

\* a request on endpoint op has been answered
Answered(t, op) == txn[t].pc = "done" /\ txn[t].op = op

Exists(p) == p \in 1..Len(patients)

\* an Assignment currently links user u to patient p
HasAssignment(u, p) == \E x \in BagToSet(assignments) : x.patient = p /\ x.user = u

C13_OwnHospitalPatientReturned ==
    \A t \in Procs :
        (/\ Answered(t, "retrieve")
         /\ UserRole(txn[t].user) = "hospital_admin"
         /\ Exists(txn[t].patient)
         /\ patients[txn[t].patient].hospital = UserHospital(txn[t].user))
        => txn[t].result = "ok" /\ txn[t].body = {txn[t].patient}

\* C14: a doctor or nurse lists, retrieves or updates a Patient if and only if
\* an Assignment links them to it; for a patient not so linked the outcome is
\* not-found.
C14_ClinicalAccessFollowsAssignment ==
    \A t \in Procs :
        (txn[t].pc = "done" /\ UserRole(txn[t].user) \in {"doctor", "nurse"}) =>
            LET u == txn[t].user
                p == txn[t].patient
            IN  /\ txn[t].op = "list" =>
                      /\ txn[t].result = "ok"
                      /\ txn[t].body = {q \in 1..Len(patients) : HasAssignment(u, q)}
                /\ (txn[t].op = "retrieve" /\ Exists(p)) =>
                      IF HasAssignment(u, p)
                      THEN txn[t].result = "ok" /\ txn[t].body = {p}
                      ELSE txn[t].result = "not_found"
                /\ (txn[t].op = "update" /\ Exists(p)) =>
                      IF HasAssignment(u, p)
                      THEN /\ txn[t].result # "not_found"
                           /\ txn[t].body \cap {"assigned_doctor", "assigned_nurse",
                                                "assigned_staff"} = {}
                                 => txn[t].result = "ok"
                      ELSE txn[t].result = "not_found"

C14_Witness ==
    \E t \in Procs :
        /\ Answered(t, "retrieve")
        /\ UserRole(txn[t].user) = "doctor"
        /\ Exists(txn[t].patient)
        /\ patients[txn[t].patient].hospital = UserHospital(txn[t].user)
        /\ ~HasAssignment(txn[t].user, txn[t].patient)
        /\ \E v \in Users : v # txn[t].user /\ HasAssignment(v, txn[t].patient)
        /\ txn[t].result = "not_found"

\* C15: a request whose role lacks the capability for the operation (anyone
\* but a nurse posting an Observation, anyone but a doctor posting a
\* Diagnosis, TestOrder or Prescription) is answered forbidden, whatever the
\* hospital of the patient and whether or not it is assigned to the requester.
C15_RoleGateAnswersForbidden ==
    \A t \in Procs :
        /\ (/\ Answered(t, "observations")
            /\ txn[t].method = "POST"
            /\ Exists(txn[t].patient)
            /\ UserRole(txn[t].user) # "nurse") => txn[t].result = "forbidden"
        /\ (/\ txn[t].pc = "done"
            /\ txn[t].op \in {"Diagnosis", "TestOrder", "Prescription"}
            /\ txn[t].method = "POST"
            /\ Exists(txn[t].patient)
            /\ UserRole(txn[t].user) # "doctor") => txn[t].result = "forbidden"

C17_OrdersOnlyByAssignedDoctor ==
    /\ \A i \in 1..Len(records) :
          records[i].kind \in {"Diagnosis", "TestOrder", "Prescription"} =>
              /\ UserRole(records[i].by) = "doctor"
              /\ records[i].linked
              /\ records[i].author = records[i].by
    /\ \A t \in Procs :
          (/\ txn[t].pc = "done"
           /\ txn[t].op \in {"Diagnosis", "TestOrder", "Prescription"}
           /\ txn[t].method = "POST"
           /\ \/ UserRole(txn[t].user) # "doctor"
              \/ ~HasAssignment(txn[t].user, txn[t].patient))
          => txn[t].result \in {"forbidden", "not_found"}

C17_Witness ==
    \E t \in Procs :
        /\ txn[t].pc = "done"
        /\ txn[t].op = "Diagnosis"
        /\ txn[t].method = "POST"
        /\ txn[t].result = "created"
        /\ \E i \in 1..Len(records) :
              /\ records[i].kind = "Diagnosis"
              /\ records[i].author = txn[t].user
              /\ records[i].patient = txn[t].patient
              /\ records[i].linked

\* C18: an Observation is created only by a nurse assigned to the patient,
\* and a patient's Observations are returned only to a nurse or a doctor
\* assigned to the patient, never to a receptionist or another role.
C18_ObservationsOnlyForCareTeam ==
    /\ \A i \in 1..Len(records) :
          records[i].kind = "Observation" =>
              UserRole(records[i].by) = "nurse" /\ records[i].linked
    /\ \A t \in Procs :
          (Answered(t, "observations") /\ txn[t].method = "GET"
              /\ txn[t].result = "ok" /\ txn[t].body # {})
          => /\ UserRole(txn[t].user) \in {"nurse", "doctor"}
             /\ HasAssignment(txn[t].user, txn[t].patient)

\* C19: clinical sub-records are append-only: no step changes or removes an
\* existing record, the set of records only grows.
C19_RecordsAppendOnly ==
    [][/\ Len(records') >= Len(records)
       /\ \A i \in 1..Len(records) : records'[i] = records[i]]_vars

\* C20: after any sequence of register, approve, reject, activate and
\* deactivate operations, a login with the correct password succeeds if and
\* only if the user is at that moment both approved and active; activating a
\* user who is not approved does not enable login.
C20_LoginIffApprovedAndActive ==
    \A t \in Procs :
        (Answered(t, "login") /\ txn[t].user \in registered
            /\ txn[t].body = {"right"})
        => (txn[t].result = "token"
               <=> (is_approved[txn[t].user] /\ is_active[txn[t].user]))

C20_Witness ==
    \E t \in Procs :
        /\ Answered(t, "login")
        /\ txn[t].user \in Applicants \cap registered
        /\ txn[t].body = {"right"}
        /\ is_active[txn[t].user]
        /\ ~is_approved[txn[t].user]
        /\ txn[t].result = "denied"

----------------------------------------------------------------------------
(* Properties of the accounts *)

\* request t is answered by this step
Answers(t, op) == txn[t].pc = "idle" /\ txn'[t].pc = "done" /\ txn'[t].op = op

\* the account a management request names
Target(t) == txn[t].body \cap Users

C22_SuperAdminApproves ==
    [][\A t \in Procs :
          /\ (/\ Answers(t, "approve")
              /\ UserRole(txn'[t].user) = "super_admin"
              /\ \A u \in Target(t)' :
                    u \in registered /\ ~is_approved[u] /\ ~is_active[u])
             => /\ txn'[t].result = "ok"
                /\ \A u \in Target(t)' : is_approved'[u] /\ is_active'[u]
          /\ (/\ Answers(t, "login")
              /\ txn'[t].body = {"right"}
              /\ txn'[t].user \in registered
              /\ is_approved[txn'[t].user] /\ is_active[txn'[t].user])
             => txn'[t].result = "token"
      ]_vars

\* C23: a role-changing update by a user whose role is not super_admin is
\* answered forbidden and changes no role; the same update by a super_admin
\* succeeds and sets the role.
C23_OnlySuperAdminChangesRoles ==
    [][\A t \in Procs :
          (/\ txn[t].pc = "idle"
           /\ txn'[t].pc = "done"
           /\ txn'[t].op \in {"change_role", "manage_update", "user_update"}
           /\ Target(t)' \subseteq registered
           /\ txn'[t].body \cap ROLE_CHOICES # {})
          => IF UserRole(txn'[t].user) # "super_admin"
             THEN txn'[t].result = "forbidden" /\ user_role' = user_role
             ELSE /\ txn'[t].result = "ok"
                  /\ \A u \in Target(t)' : user_role'[u] \in txn'[t].body
      ]_vars

----------------------------------------------------------------------------
(* Properties of the shared state *)

\* forbidden_fields of perform_update
AssignmentFields == {"assigned_doctor", "assigned_nurse", "assigned_staff"}

\* C24: a patient update that carries assigned_doctor, assigned_nurse or
\* assigned_staff is denied for every role but super_admin and changes neither
\* the Patient nor an Assignment; no patient update by a role other than
\* super_admin changes the Assignments.
C24_NoManualAssignment ==
    [][\A t \in Procs :
          (Answers(t, "update") /\ UserRole(txn'[t].user) # "super_admin") =>
              /\ assignments' = assignments
              /\ availability' = availability
              /\ txn'[t].body \cap AssignmentFields # {} =>
                    /\ txn'[t].result \in {"forbidden", "not_found"}
                    /\ patients' = patients
      ]_vars

C24_Witness ==
    \E t \in Procs :
        /\ Answered(t, "update")
        /\ UserRole(txn[t].user) = "doctor"
        /\ HasAssignment(txn[t].user, txn[t].patient)
        /\ txn[t].body = {"assigned_doctor"}
        /\ txn[t].result = "forbidden"

\* a call of assign_patient or reassign_patient is between entry and return
InEngine(t) == txn[t].op \in {"assign", "reassign"} /\ txn[t].pc \notin {"idle", "done"}

\* C25: the availability of the resources and the Assignments change only in
\* assign_patient (create and flip) and in reassign_patient (release, then
\* acquire); every other operation leaves both as they are.
C25_OnlyEngineWritesSharedState ==
    [][(assignments' # assignments \/ availability' # availability)
          => \E t \in Procs : InEngine(t)]_vars

\* request t holds no uncommitted write
NoOpenTransaction(t) ==
    txn[t].ins = EmptyBag /\ txn[t].del = EmptyBag /\ txn[t].wAvail = KeepAll

\* C26: the triage oracle is consulted only after the Patient is persisted
\* and the call of assign_patient has returned, never inside its transaction;
\* whatever the oracle answers (a failure included) the Patient stays, and the
\* priority write creates, changes or removes no Assignment.
C26_OracleOutsideAssignment ==
    [][\A t \in Procs :
          /\ txn'[t].pc = "ai" =>
                /\ txn[t].pc = "done"
                /\ txn[t].op = "assign"
                /\ txn'[t].patient = txn[t].patient
          /\ txn[t].pc = "ai" =>
                /\ Exists(txn[t].patient)
                /\ NoOpenTransaction(t)
                /\ Len(patients') = Len(patients)
                /\ patients'[txn[t].patient].hospital = patients[txn[t].patient].hospital
                /\ assignments' = assignments
                /\ availability' = availability
      ]_vars

C26_Witness ==
    \E t \in Procs :
        /\ txn[t].pc = "ai"
        /\ NoOpenTransaction(t)
        /\ CountOfPatient(assignments, txn[t].patient) = 1
        /\ patients[txn[t].patient].priority = "Low"

----------------------------------------------------------------------------
(* Properties of notes and lab reports *)

\* the hospital of the patient of record i
RecordHospital(i) == patients[records[i].patient].hospital

\* C27: a user who is not super_admin never creates, reads, updates or
\* deletes a Note or LabReport of a patient of another hospital: the request is
\* answered not-found or denied and the records stay as they are.
C27_RecordsStayInHospital ==
    [][\A t \in Procs :
          (/\ txn[t].pc = "idle"
           /\ txn'[t].pc = "done"
           /\ txn'[t].op \in {"Note", "LabReport"}
           /\ UserRole(txn'[t].user) # "super_admin") =>
              LET u == txn'[t].user
                  m == txn'[t].method
              IN  /\ (m = "POST" /\ Exists(txn'[t].patient)
                         /\ patients[txn'[t].patient].hospital # UserHospital(u)) =>
                        /\ txn'[t].result \in {"not_found", "forbidden", "bad_request"}
                        /\ records' = records
                  /\ m = "GET" =>
                        \A i \in txn'[t].body : RecordHospital(i) = UserHospital(u)
                  /\ m \in {"PATCH", "DELETE"} =>
                        \A i \in txn'[t].body \cap (1..Len(records)) :
                            RecordHospital(i) # UserHospital(u) =>
                                /\ txn'[t].result \in {"not_found", "forbidden"}
                                /\ records' = records
      ]_vars

\* C28: every lab-report request (list, retrieve, create, update) of a nurse
\* or a receptionist is answered forbidden, returns no LabReport and changes
\* none.
C28_LabReportsClosedToNurseAndReceptionist ==
    [][\A t \in Procs :
          (/\ txn[t].pc = "idle"
           /\ txn'[t].pc = "done"
           /\ txn'[t].op = "LabReport"
           /\ UserRole(txn'[t].user) \in {"nurse", "receptionist"}) =>
              /\ txn'[t].result = "forbidden"
              /\ txn'[t].method = "GET" => txn'[t].body = {}
              /\ records' = records
      ]_vars

----------------------------------------------------------------------------
(* Properties of reassign_patient *)

\* C29: in every reachable state each Assignment's bed belongs to the
\* hospital of its patient and its staff user is a doctor or nurse of that
\* hospital; reassign_patient never links a patient to staff of another
\* hospital or of a non-clinical role.
C29_AssignmentsStayInHospital ==
    \A x \in BagToSet(assignments) :
        /\ ResourceHospital(x.resource) = patients[x.patient].hospital
        /\ UserRole(x.user) \in {"doctor", "nurse"}
        /\ UserHospital(x.user) = patients[x.patient].hospital

\* the patient of call t held, at the start of the call, an Assignment on a
\* 'Bed' resource of the patient's hospital
HeldOwnBed(t) ==
    \E x \in BagToSet(RowsOfPatient(txn[t].preA, txn[t].patient)) :
        /\ ResourceType(x.resource) = "Bed"
        /\ ResourceHospital(x.resource) = patients[txn[t].patient].hospital

\* C30: reassign_patient, run without a concurrent transaction on a patient
\* that holds an Assignment on a 'Bed' of the patient's hospital, succeeds,
\* because the bed it released is available to the bed search; it ends with no
\* Assignment only when the patient held no such bed.
C30_ReassignFindsReleasedBed ==
    \A t \in Procs :
        (txn[t].pc = "done" /\ txn[t].op = "reassign") =>
            /\ HeldOwnBed(t) => txn[t].result = "assignment"
            /\ txn[t].result = "no_bed" => ~HeldOwnBed(t)

C30_Witness ==
    \E t \in Procs :
        /\ txn[t].pc = "done" /\ txn[t].op = "reassign"
        /\ HeldOwnBed(t)
        /\ txn[t].result = "assignment"
        /\ txn[t].available_bed \in txn[t].old_beds
        /\ \A r \in Resources :
              (ResourceHospital(r) = patients[txn[t].patient].hospital
                 /\ ResourceType(r) = "Bed") => ~txn[t].preAv[r]

====
